---- MODULE Spec2Model ----
(***************************************************************************)
(* Model of trinity/components/eth2/network_generator/component.py:        *)
(* the "create-network" handler                                            *)
(* NetworkGeneratorComponent._generate_network_as_json and the JSON        *)
(* encoder BytesJsonEncoder.                                               *)
(*                                                                         *)
(* An invocation is a process that walks through the handler's statements. *)
(* The output file is shared state; each open file has its own offset.     *)
(* Python values are tagged records, so that None, an unbound local, an    *)
(* int and a parsed JSON tree are told apart the way the interpreter does. *)
(***************************************************************************)
EXTENDS Integers, Sequences, FiniteSets, TLC

\* ---------------------------------------------------------------- bounds
MaxBytesLen == 2      \* longest byte string fed to the encoder
MaxTime == 2          \* --genesis-time ranges over 0..MaxTime
MaxDelay == 1         \* --genesis-delay ranges over -MaxDelay..MaxDelay
MaxNow == 2           \* int(time.time()) ranges over 1..MaxNow

Procs == {1, 2}
ByteVals == {0, 9, 10, 15, 16, 171, 255}
Profiles == {"minimal", "mainnet"}

\* ---------------------------------------------------------- Python values
\* Optional scalars (argparse leaves an option that was not given at None).
None == [tag |-> "None", v |-> 0]
IntV(n) == [tag |-> "int", v |-> n]
PathV(n) == [tag |-> "path", v |-> n]
UnboundLocal == [tag |-> "Unbound", v |-> 0]

\* A leaf of the configuration tree: bytes (b) or str (s, one character each).
BytesV(b) == [tag |-> "bytes", b |-> b, s |-> <<>>]
StrV(s) == [tag |-> "str", b |-> <<>>, s |-> s]

\* A configuration tree.  "config" is a mapping holding profile,
\* genesis_state.genesis_time and genesis_state_root; the other tags are the
\* remaining Python values json.load can return, None and the unbound local.
Tree(tag, profile, t, root) ==
  [tag |-> tag, profile |-> profile, genesis_time |-> t, genesis_state_root |-> root]
Literal(tag) == Tree(tag, "", 0, StrV(<<>>))
Config(profile, t, root) == Tree("config", profile, t, root)
NoneTree == Literal("None")
UnboundTree == Literal("Unbound")

\* Truth value testing that takes an empty mapping for true.
TruthyMutEmptyDict(x) ==
  CASE x.tag = "int" -> x.v # 0
    [] x.tag \in {"path", "config", "list1", "true", "one", "emptydict"} -> TRUE
    [] OTHER -> FALSE

\* Python truth value testing, as `if x` and `x and y` apply it: None, 0,
\* False and empty containers and strings are false.
Truthy(x) ==
  CASE x.tag = "int" -> x.v # 0
    [] x.tag \in {"path", "config", "list1", "true", "one"} -> TRUE
    [] OTHER -> FALSE

\* ------------------------------------------------------- BytesJsonEncoder
HexDigits == <<"0", "1", "2", "3", "4", "5", "6", "7",
               "8", "9", "a", "b", "c", "d", "e", "f">>
UpperHexDigits == <<"0", "1", "2", "3", "4", "5", "6", "7",
                    "8", "9", "A", "B", "C", "D", "E", "F">>

\* A buggy bytes.hex(): high nibble dropped when it is zero ("%x" per byte).
hexMutNoPad(b) ==
  LET RECURSIVE go(_)
      go(i) == IF i > Len(b) THEN <<>>
               ELSE (IF b[i] < 16 THEN <<HexDigits[b[i] + 1]>>
                     ELSE <<HexDigits[(b[i] \div 16) + 1], HexDigits[(b[i] % 16) + 1]>>)
                    \o go(i + 1)
  IN go(1)

\* bytes.hex(): two lowercase digits per byte, high nibble first, no prefix.
hex(b) ==
  [i \in 1..(2 * Len(b)) |->
     LET byte == b[(i + 1) \div 2]
     IN IF i % 2 = 1 THEN HexDigits[(byte \div 16) + 1]
                     ELSE HexDigits[(byte % 16) + 1]]

\* BytesJsonEncoder.default: bytes become their hex str, anything else is
\* handed to json.JSONEncoder.default, which raises TypeError.
default(obj) ==
  IF obj.tag = "bytes" THEN [err |-> "", val |-> StrV(hex(obj.b))]
  ELSE [err |-> "TypeError", val |-> obj]

\* The inverse used by readers of the artifact (bytes.fromhex / decode_hex):
\* pairs of hex digits of either case, high nibble first.
IsHexDigit(c) == \E v \in 1..16 : HexDigits[v] = c \/ UpperHexDigits[v] = c
HexVal(c) == (CHOOSE v \in 1..16 : HexDigits[v] = c \/ UpperHexDigits[v] = c) - 1
decode_hex(s) ==
  IF Len(s) % 2 = 1 \/ \E i \in 1..Len(s) : ~IsHexDigit(s[i])
  THEN [err |-> "ValueError", b |-> <<>>]
  ELSE [err |-> "",
        b |-> [i \in 1..(Len(s) \div 2) |-> 16 * HexVal(s[2 * i - 1]) + HexVal(s[2 * i])]]

\* ------------------------------------------------------ the file's content
\* A file is a sequence of chunks, the units in which text reaches the disk.
Chunk(k, n, s) == [k |-> k, n |-> n, s |-> s]
Nul == Chunk("NUL", 0, <<>>)           \* a hole left by a write past the end
Garbage == Chunk("garbage", 0, <<>>)   \* text that is not JSON
BadByte == Chunk("badbyte", 0, <<>>)   \* bytes the text codec cannot decode

LiteralText == [emptydict |-> "{}", emptylist |-> "[]", None |-> "null",
                zero |-> "0", false |-> "false", emptystr |-> "\"\"",
                list1 |-> "[1]", true |-> "true", one |-> "1"]
LiteralTags == DOMAIN LiteralText

\* json.dump(genesis_config, output_file, cls=BytesJsonEncoder): the chunks
\* written, or the exception raised while encoding.
dump(tree) ==
  IF tree.tag = "config"
  THEN LET root == tree.genesis_state_root
           enc == IF root.tag = "str" THEN [err |-> "", val |-> root] ELSE default(root)
       IN IF enc.err # "" THEN [err |-> enc.err, chunks |-> <<>>]
          ELSE [err |-> "",
                chunks |-> << Chunk("{", 0, <<>>),
                              Chunk("profile", 0, <<tree.profile>>),
                              Chunk("genesis_time", tree.genesis_time, <<>>),
                              Chunk("genesis_state_root", 0, enc.val.s),
                              Chunk("}", 0, <<>>) >>]
  ELSE IF tree.tag \in LiteralTags
  THEN [err |-> "", chunks |-> << Chunk("lit", 0, <<LiteralText[tree.tag]>>) >>]
  ELSE [err |-> "TypeError", chunks |-> <<>>]

\* json.load(config_file): the parsed tree, or the exception raised.
\* Reading decodes the whole file first; then the text must be one JSON value.
load(content) ==
  IF \E i \in 1..Len(content) : content[i].k = "badbyte"
  THEN [err |-> "UnicodeDecodeError", tree |-> NoneTree]
  ELSE IF Len(content) = 1 /\ content[1].k = "lit"
          /\ \E t \in LiteralTags : content[1].s = <<LiteralText[t]>>
  THEN [err |-> "",
        tree |-> Literal(CHOOSE t \in LiteralTags : content[1].s = <<LiteralText[t]>>)]
  ELSE IF Len(content) = 5
          /\ content[1].k = "{" /\ content[2].k = "profile"
          /\ content[3].k = "genesis_time" /\ content[4].k = "genesis_state_root"
          /\ content[5].k = "}"
  THEN [err |-> "",
        tree |-> Config(content[2].s[1], content[3].n, StrV(content[4].s))]
  ELSE [err |-> "JSONDecodeError", tree |-> NoneTree]

\* ------------------------------------------- eth2.genesis (collaborators)
\* The state root the generation collaborator computes for (profile, time).
GenesisRoot(profile, t) == << (IF profile = "minimal" THEN 10 ELSE 171), t % 256 >>

\* State files on disk: 1 is a readable SSZ state, 2 does not exist.
ReadableState == 1
MissingState == 2
StateTime == 9
StateRoot(profile) == << (IF profile = "minimal" THEN 15 ELSE 16), 255 >>

Result(err, config) == [err |-> err, config |-> config]

\* generate_genesis_config(profile, genesis_time)
generate_genesis_config(profile, t) ==
  Result("", Config(profile, t, BytesV(GenesisRoot(profile, t))))

\* genesis_config_from_state(profile, genesis_state_path): fatal when the
\* path is None or names no readable file.
genesis_config_from_state(profile, path) ==
  IF path.tag = "path" /\ path.v = ReadableState
  THEN Result("", Config(profile, StateTime, BytesV(StateRoot(profile))))
  ELSE IF path.tag = "path" THEN Result("FileNotFoundError", NoneTree)
  ELSE Result("TypeError", NoneTree)

\* update_genesis_config_with_time(existing, genesis_time): the existing
\* artifact with its time re-stamped; a tree without genesis_state fails.
update_genesis_config_with_time(existing, t) ==
  IF existing.tag = "config"
  THEN Result("", [existing EXCEPT !.genesis_time = t])
  ELSE Result("KeyError", NoneTree)

\* A record of one collaborator call and its arguments.
Call(fn, profile, t, tree, state) ==
  [fn |-> fn, profile |-> profile, time |-> t, tree |-> tree, state |-> state]

\* ------------------------------------------------------------------ state
VARIABLES
  active,          \* the invocations that run
  now,             \* int(time.time())
  file,            \* the output path: [exists, content]
  file0,           \* the output path before any invocation started
  args,            \* args[p]: the parsed Namespace
  pc,              \* pc[p]: the statement invocation p is at
  existing,        \* existing[p]: local existing_genesis_config
  genesis_time,    \* genesis_time[p]: local genesis_time
  genesis_config,  \* genesis_config[p]: local genesis_config
  calls,           \* calls[p]: collaborator calls made, in order
  error,           \* error[p]: the exception that reached the caller, or ""
  out,             \* out[p]: chunks json.dump still has to write
  offset,          \* offset[p]: position of p's open output file
  hb, henc, hdec, hpc   \* encoder round trip: input, hex text, decoded, step

procvars == <<active, now, file, file0, args, pc, existing, genesis_time,
              genesis_config, calls, error, out, offset>>
hexvars == <<hb, henc, hdec, hpc>>
vars == <<active, now, file, file0, args, pc, existing, genesis_time,
          genesis_config, calls, error, out, offset,
          hb, henc, hdec, hpc>>

File(exists, content) == [exists |-> exists, content |-> content]
Absent == File(FALSE, <<>>)

\* The command lines argparse accepts: exactly one of the three options of
\* the mutually exclusive, required group; the others stay None.
Namespace(profile, gt, gd, gs) ==
  [config_profile |-> profile, genesis_time |-> gt, genesis_delay |-> gd,
   genesis_state |-> gs]
TimeArgs == {Namespace(pr, IntV(t), None, None) : pr \in Profiles, t \in 0..MaxTime}
DelayArgs ==
  {Namespace(pr, None, IntV(d), None) : pr \in Profiles, d \in (0 - MaxDelay)..MaxDelay}
StateArgs ==
  {Namespace(pr, None, None, PathV(f)) : pr \in Profiles, f \in {ReadableState, MissingState}}
CommandLines == TimeArgs \cup DelayArgs \cup StateArgs

\* What the output path can hold before an invocation: nothing, an artifact
\* written by an earlier run, another JSON value, text that is not JSON, a
\* truncated artifact, or bytes that are not text.
DeadBeef == <<"d", "e", "a", "d", "b", "e", "e", "f">>
OldArtifacts == {Config(pr, t, StrV(DeadBeef)) : pr \in Profiles, t \in {1, 7}}
InitialFiles ==
  {Absent}
  \cup {File(TRUE, dump(c).chunks) : c \in OldArtifacts}
  \cup {File(TRUE, dump(Literal(t)).chunks) : t \in LiteralTags}
  \cup {File(TRUE, <<>>), File(TRUE, <<Garbage>>), File(TRUE, <<BadByte>>)}
  \cup {File(TRUE, SubSeq(dump(c).chunks, 1, 3)) : c \in OldArtifacts}

HexIdle ==
  /\ hb = <<>>
  /\ henc = <<>>
  /\ hdec = [err |-> "", b |-> <<>>]
  /\ hpc = "idle"

ProcInit(A, files, lines) ==
  /\ active = A
  /\ now \in 1..MaxNow
  /\ file \in files
  /\ file0 = file
  /\ args \in [Procs -> lines \cup {Namespace("minimal", IntV(1), None, None)}]
  /\ \A p \in Procs \ A : args[p] = Namespace("minimal", IntV(1), None, None)
  /\ pc = [p \in Procs |-> IF p \in A THEN "exists" ELSE "idle"]
  /\ existing = [p \in Procs |-> UnboundTree]
  /\ genesis_time = [p \in Procs |-> UnboundLocal]
  /\ genesis_config = [p \in Procs |-> UnboundTree]
  /\ calls = [p \in Procs |-> <<>>]
  /\ error = [p \in Procs |-> ""]
  /\ out = [p \in Procs |-> <<>>]
  /\ offset = [p \in Procs |-> 0]

\* One invocation.
Init == ProcInit({1}, InitialFiles, CommandLines) /\ HexIdle

\* Two invocations on the same output path, started by command lines that
\* reach the write: a time over an artifact or over text that is not JSON,
\* or a readable state file.
ConcFiles ==
  {Absent, File(TRUE, <<Garbage>>),
   File(TRUE, dump(Config("minimal", 7, StrV(DeadBeef))).chunks)}
ConcLines ==
  {Namespace(pr, IntV(t), None, None) : pr \in Profiles, t \in 1..MaxTime}
  \cup {Namespace("minimal", None, None, PathV(ReadableState))}
InitConc == ProcInit({1, 2}, ConcFiles, ConcLines) /\ HexIdle

\* -------------------------------------------- _generate_network_as_json
Raise(p, exc) ==
  /\ error' = [error EXCEPT ![p] = exc]
  /\ pc' = [pc EXCEPT ![p] = "failed"]

\* if output_file_path.exists():
Exists(p) ==
  /\ pc[p] = "exists"
  /\ pc' = [pc EXCEPT ![p] = IF file.exists THEN "load" ELSE "resolve"]
  /\ UNCHANGED <<active, now, file, file0, args, existing, genesis_time,
                 genesis_config, calls, error, out, offset>>
  /\ UNCHANGED hexvars

\* with open(output_file_path, "r") as config_file: try: json.load(...)
\* except JSONDecodeError: existing_genesis_config = None
Load(p) ==
  /\ pc[p] = "load"
  /\ LET r == load(file.content)
     IN IF r.err = ""
        THEN /\ existing' = [existing EXCEPT ![p] = r.tree]
             /\ pc' = [pc EXCEPT ![p] = "resolve"]
             /\ UNCHANGED error
        ELSE IF r.err = "JSONDecodeError"
        THEN /\ existing' = [existing EXCEPT ![p] = NoneTree]
             /\ pc' = [pc EXCEPT ![p] = "resolve"]
             /\ UNCHANGED error
        ELSE /\ Raise(p, r.err)
             /\ UNCHANGED existing
  /\ UNCHANGED <<active, now, file, file0, args, genesis_time,
                 genesis_config, calls, out, offset>>
  /\ UNCHANGED hexvars

\* if args.genesis_time: ... elif args.genesis_delay: ...
\* The value the local genesis_time holds afterwards.
resolve(a, clock) ==
  IF Truthy(a.genesis_time) THEN a.genesis_time
  ELSE IF Truthy(a.genesis_delay) THEN IntV(clock + a.genesis_delay.v)
  ELSE UnboundLocal

Resolve(p) ==
  /\ pc[p] = "resolve"
  /\ genesis_time' = [genesis_time EXCEPT ![p] = resolve(args[p], now)]
  /\ pc' = [pc EXCEPT ![p] = "policy"]
  /\ UNCHANGED <<active, now, file, file0, args, existing,
                 genesis_config, calls, error, out, offset>>
  /\ UNCHANGED hexvars

\* Lines 106-115: which collaborator is called with what, and what comes back.
\* Reading a local that was never assigned raises UnboundLocalError; `and`
\* and `or` evaluate their right operand only when the left one asks for it.
Decision(err, made, config) == [err |-> err, calls |-> made, config |-> config]

\* A policy that never looks at the existing artifact.
decideMutAlwaysGenerate(a, ex, gt) ==
  IF Truthy(a.genesis_time) \/ Truthy(a.genesis_delay)
  THEN LET r == generate_genesis_config(a.config_profile, gt.v)
       IN Decision(r.err,
                   <<Call("generate_genesis_config", a.config_profile, gt,
                          NoneTree, None)>>, r.config)
  ELSE LET r == genesis_config_from_state(a.config_profile, a.genesis_state)
       IN Decision(r.err,
                   <<Call("genesis_config_from_state", a.config_profile, None,
                          NoneTree, a.genesis_state)>>, r.config)

\* A policy that re-stamps a usable existing artifact whatever the input is.
decideMutExistingFirst(a, ex, gt) ==
  IF Truthy(ex)
  THEN LET t == IF gt.tag = "int" THEN gt ELSE IntV(ex.genesis_time)
           r == update_genesis_config_with_time(ex, t.v)
       IN Decision(r.err,
                   <<Call("update_genesis_config_with_time", "", t, ex, None)>>,
                   r.config)
  ELSE IF Truthy(a.genesis_time) \/ Truthy(a.genesis_delay)
  THEN LET r == generate_genesis_config(a.config_profile, gt.v)
       IN Decision(r.err,
                   <<Call("generate_genesis_config", a.config_profile, gt,
                          NoneTree, None)>>, r.config)
  ELSE LET r == genesis_config_from_state(a.config_profile, a.genesis_state)
       IN Decision(r.err,
                   <<Call("genesis_config_from_state", a.config_profile, None,
                          NoneTree, a.genesis_state)>>, r.config)

\* The policy of the handler.
decide(a, ex, gt) ==
  IF Truthy(a.genesis_time) \/ Truthy(a.genesis_delay)
  THEN IF ex.tag = "Unbound" \/ gt.tag = "Unbound"
       THEN Decision("UnboundLocalError", <<>>, UnboundTree)
       ELSE IF Truthy(ex)
       THEN LET r == update_genesis_config_with_time(ex, gt.v)
            IN Decision(r.err,
                        <<Call("update_genesis_config_with_time", "", gt, ex, None)>>,
                        r.config)
       ELSE LET r == generate_genesis_config(a.config_profile, gt.v)
            IN Decision(r.err,
                        <<Call("generate_genesis_config", a.config_profile, gt,
                               NoneTree, None)>>, r.config)
  ELSE LET r == genesis_config_from_state(a.config_profile, a.genesis_state)
       IN Decision(r.err,
                   <<Call("genesis_config_from_state", a.config_profile, None,
                          NoneTree, a.genesis_state)>>, r.config)

Policy(p) ==
  /\ pc[p] = "policy"
  /\ LET d == decide(args[p], existing[p], genesis_time[p])
     IN /\ calls' = [calls EXCEPT ![p] = d.calls]
        /\ IF d.err = ""
           THEN /\ genesis_config' = [genesis_config EXCEPT ![p] = d.config]
                /\ pc' = [pc EXCEPT ![p] = "log"]
                /\ UNCHANGED error
           ELSE /\ Raise(p, d.err)
                /\ UNCHANGED genesis_config
  /\ UNCHANGED <<active, now, file, file0, args, existing, genesis_time,
                 out, offset>>
  /\ UNCHANGED hexvars

\* genesis_time = genesis_config["genesis_state"]["genesis_time"]; logger.info
Log(p) ==
  /\ pc[p] = "log"
  /\ IF genesis_config[p].tag = "config"
     THEN /\ genesis_time' =
               [genesis_time EXCEPT ![p] = IntV(genesis_config[p].genesis_time)]
          /\ pc' = [pc EXCEPT ![p] = "mkdir"]
          /\ UNCHANGED error
     ELSE /\ Raise(p, "KeyError")
          /\ UNCHANGED genesis_time
  /\ UNCHANGED <<active, now, file, file0, args, existing,
                 genesis_config, calls, out, offset>>
  /\ UNCHANGED hexvars

\* output_file_path.parent.mkdir(parents=True, exist_ok=True)
Mkdir(p) ==
  /\ pc[p] = "mkdir"
  /\ \E ok \in BOOLEAN :
       IF ok THEN pc' = [pc EXCEPT ![p] = "open"] /\ UNCHANGED error
       ELSE Raise(p, "OSError")
  /\ UNCHANGED <<active, now, file, file0, args, existing, genesis_time,
                 genesis_config, calls, out, offset>>
  /\ UNCHANGED hexvars

\* open(output_file_path, "w"): creates the file or truncates it to nothing.
Open(p) ==
  /\ pc[p] = "open"
  /\ \E ok \in BOOLEAN :
       IF ok
       THEN /\ file' = File(TRUE, <<>>)
            /\ offset' = [offset EXCEPT ![p] = 0]
            /\ pc' = [pc EXCEPT ![p] = "dump"]
            /\ UNCHANGED error
       ELSE /\ Raise(p, "OSError")
            /\ UNCHANGED <<file, offset>>
  /\ UNCHANGED <<active, now, file0, args, existing, genesis_time,
                 genesis_config, calls, out>>
  /\ UNCHANGED hexvars

\* json.dump(...): the encoder runs; an exception leaves the `with` block,
\* which closes the file as it is.
Dump(p) ==
  /\ pc[p] = "dump"
  /\ LET r == dump(genesis_config[p])
     IN IF r.err = ""
        THEN /\ out' = [out EXCEPT ![p] = r.chunks]
             /\ pc' = [pc EXCEPT ![p] = "write"]
             /\ UNCHANGED error
        ELSE /\ Raise(p, r.err)
             /\ UNCHANGED out
  /\ UNCHANGED <<active, now, file, file0, args, existing, genesis_time,
                 genesis_config, calls, offset>>
  /\ UNCHANGED hexvars

\* write(2) of one chunk at the descriptor's own offset.
WriteAt(content, off, c) ==
  [i \in 1..(IF off + 1 > Len(content) THEN off + 1 ELSE Len(content)) |->
     IF i = off + 1 THEN c
     ELSE IF i <= Len(content) THEN content[i]
     ELSE Nul]

WriteChunk(p) ==
  /\ pc[p] = "write"
  /\ out[p] # <<>>
  /\ \E ok \in BOOLEAN :
       IF ok
       THEN /\ file' = File(TRUE, WriteAt(file.content, offset[p], Head(out[p])))
            /\ offset' = [offset EXCEPT ![p] = offset[p] + 1]
            /\ out' = [out EXCEPT ![p] = Tail(out[p])]
            /\ UNCHANGED <<pc, error>>
       ELSE /\ Raise(p, "OSError")
            /\ UNCHANGED <<file, offset, out>>
  /\ UNCHANGED <<active, now, file0, args, existing, genesis_time,
                 genesis_config, calls>>
  /\ UNCHANGED hexvars

\* Leaving the `with` block after the last chunk: the file is closed.
Close(p) ==
  /\ pc[p] = "write"
  /\ out[p] = <<>>
  /\ pc' = [pc EXCEPT ![p] = "done"]
  /\ UNCHANGED <<active, now, file, file0, args, existing, genesis_time,
                 genesis_config, calls, error, out, offset>>
  /\ UNCHANGED hexvars

Next ==
  \/ \E p \in active : Exists(p)
  \/ \E p \in active : Load(p)
  \/ \E p \in active : Resolve(p)
  \/ \E p \in active : Policy(p)
  \/ \E p \in active : Log(p)
  \/ \E p \in active : Mkdir(p)
  \/ \E p \in active : Open(p)
  \/ \E p \in active : Dump(p)
  \/ \E p \in active : WriteChunk(p)
  \/ \E p \in active : Close(p)

Spec == Init /\ [][Next]_vars
SpecConc == InitConc /\ [][Next]_vars

\* --------------------------------------------- the encoder on its own
ByteStrings == UNION {[1..n -> ByteVals] : n \in 0..MaxBytesLen}

InitHex ==
  /\ active = {}
  /\ now = 1
  /\ file = Absent
  /\ file0 = Absent
  /\ args = [p \in Procs |-> Namespace("minimal", IntV(1), None, None)]
  /\ pc = [p \in Procs |-> "idle"]
  /\ existing = [p \in Procs |-> UnboundTree]
  /\ genesis_time = [p \in Procs |-> UnboundLocal]
  /\ genesis_config = [p \in Procs |-> UnboundTree]
  /\ calls = [p \in Procs |-> <<>>]
  /\ error = [p \in Procs |-> ""]
  /\ out = [p \in Procs |-> <<>>]
  /\ offset = [p \in Procs |-> 0]
  /\ hb \in ByteStrings
  /\ henc = <<>>
  /\ hdec = [err |-> "", b |-> <<>>]
  /\ hpc = "encode"

\* The encoder meets a bytes value.
Encode ==
  /\ hpc = "encode"
  /\ henc' = default(BytesV(hb)).val.s
  /\ hpc' = "decode"
  /\ UNCHANGED <<hb, hdec>>
  /\ UNCHANGED procvars

\* A reader decodes the hex text.
Decode ==
  /\ hpc = "decode"
  /\ hdec' = decode_hex(henc)
  /\ hpc' = "done"
  /\ UNCHANGED <<hb, henc>>
  /\ UNCHANGED procvars

NextHex == Encode \/ Decode
SpecHex == InitHex /\ [][NextHex]_vars

\* ------------------------------------------------------------ properties
Terminal(p) == pc[p] \in {"done", "failed"}

\* Lines 106-115 have run in invocation p (the only exception raised before
\* them is the decoding error of the read).
PolicyRan(p) ==
  \/ pc[p] \in {"log", "mkdir", "open", "dump", "write", "done"}
  \/ pc[p] = "failed" /\ error[p] # "UnicodeDecodeError"

\* The handler resolved a genesis time from its arguments.
TimeResolved(p) == Truthy(args[p].genesis_time) \/ Truthy(args[p].genesis_delay)
ResolvedTime(p) ==
  IF Truthy(args[p].genesis_time) THEN args[p].genesis_time
  ELSE IntV(now + args[p].genesis_delay.v)

GenerateCall(p, t) == Call("generate_genesis_config", args[p].config_profile, t, NoneTree, None)
UpdateCall(tree, t) == Call("update_genesis_config_with_time", "", t, tree, None)
DeriveCall(p) ==
  Call("genesis_config_from_state", args[p].config_profile, None, NoneTree,
       args[p].genesis_state)

LowerHex == {HexDigits[i] : i \in 1..16}

\* C1: with a resolved genesis time T and no file at the output path, the
\* invocation runs in generate mode: exactly the generation collaborator is
\* called, with (profile, T), and unless the file system refuses the write
\* the invocation completes and the artifact written carries genesis_time T.
C1_GenerateWhenAbsent ==
  \A p \in active :
    (TimeResolved(p) /\ ~file0.exists) =>
      /\ PolicyRan(p) => calls[p] = <<GenerateCall(p, ResolvedTime(p))>>
      /\ (Terminal(p) /\ error[p] # "OSError") =>
           /\ pc[p] = "done"
           /\ load(file.content).err = ""
           /\ load(file.content).tree.tag = "config"
           /\ load(file.content).tree.genesis_time = ResolvedTime(p).v

\* C2: with a resolved genesis time T2 and a valid artifact with time
\* T1 # T2 at the output path, the artifact written is the existing one with
\* genesis_time T2 and every other field as it was, and the only
\* collaborator called is the re-stamp one.
C2_UpdateKeepsFields ==
  \A p \in active :
    LET old == load(file0.content)
        new == load(file.content)
    IN (/\ pc[p] = "done"
        /\ TimeResolved(p)
        /\ file0.exists /\ old.err = "" /\ old.tree.tag = "config"
        /\ old.tree.genesis_time # ResolvedTime(p).v) =>
         /\ calls[p] = <<UpdateCall(old.tree, ResolvedTime(p))>>
         /\ new.err = ""
         /\ new.tree.genesis_time = ResolvedTime(p).v
         /\ new.tree.genesis_state_root = old.tree.genesis_state_root
         /\ new.tree.profile = old.tree.profile
         /\ new.tree.tag = "config"

C2_Witness ==
  \E p \in active :
    /\ pc[p] = "done"
    /\ TimeResolved(p)
    /\ load(file0.content).err = ""
    /\ load(file0.content).tree.tag = "config"
    /\ load(file0.content).tree.genesis_time = 7
    /\ load(file.content).tree.genesis_time = 2
    /\ load(file.content).tree.genesis_state_root = StrV(DeadBeef)

\* C3: with a --genesis-state input, whatever the output path holds (nothing,
\* valid JSON, text that is not JSON), the only collaborator called is the
\* state-derivation one, on (profile, state file), the invocation completes
\* unless the state file or the file system fail it, and the artifact written
\* is the derived one: nothing of the existing artifact reaches the output.
C3_DeriveIgnoresExisting ==
  \A p \in active :
    (args[p].genesis_state.tag = "path") =>
      /\ PolicyRan(p) => calls[p] = <<DeriveCall(p)>>
      /\ (/\ Terminal(p)
          /\ args[p].genesis_state.v = ReadableState
          /\ error[p] \notin {"OSError", "UnicodeDecodeError"}) => pc[p] = "done"
      /\ pc[p] = "done" =>
           /\ file.exists
           /\ load(file.content).err = ""
           /\ load(file.content).tree =
                Config(args[p].config_profile, StateTime,
                       StrV(hex(StateRoot(args[p].config_profile))))

C3_Witness ==
  \E p \in active :
    /\ pc[p] = "done"
    /\ args[p].genesis_state.tag = "path"
    /\ load(file0.content).err = ""
    /\ load(file0.content).tree.tag = "config"
    /\ load(file0.content).tree.genesis_state_root = StrV(DeadBeef)
    /\ load(file.content).tree.genesis_state_root = StrV(<<"0", "f", "f", "f">>)

\* C4: an explicit genesis time t, whatever integer it is, is the genesis
\* time the invocation resolves, and the collaborator it goes to is the
\* update or the generation one, with t: never the state-derivation one.
C4_ExplicitTimeResolved ==
  \A p \in active :
    (args[p].genesis_time.tag = "int") =>
      /\ pc[p] = "policy" => genesis_time[p] = args[p].genesis_time
      /\ (PolicyRan(p) /\ calls[p] # <<>>) =>
           /\ calls[p][1].fn # "genesis_config_from_state"
           /\ calls[p][1].time = args[p].genesis_time

\* C5: a genesis delay d, whatever integer it is, resolves the genesis time
\* now + d, and the collaborator it goes to is the update or the generation
\* one, with now + d: never the state-derivation one.
C5_DelayResolved ==
  \A p \in active :
    (args[p].genesis_delay.tag = "int") =>
      /\ pc[p] = "policy" => genesis_time[p] = IntV(now + args[p].genesis_delay.v)
      /\ (PolicyRan(p) /\ calls[p] # <<>>) =>
           /\ calls[p][1].fn # "genesis_config_from_state"
           /\ calls[p][1].time = IntV(now + args[p].genesis_delay.v)

\* C6: a file at the output path that is not JSON never makes the load raise,
\* and the invocation then decides as it does when no file exists (the local
\* existing_genesis_config never assigned): same collaborator call, same
\* exception or same configuration.
C6_UnparseableAsAbsent ==
  \A p \in active :
    (file0.exists /\ load(file0.content).err = "JSONDecodeError") =>
      LET d == decide(args[p], UnboundTree, resolve(args[p], now))
      IN /\ error[p] # "JSONDecodeError"
         /\ PolicyRan(p) =>
              /\ calls[p] = d.calls
              /\ d.err # "" => error[p] = d.err
              /\ d.err = "" => (genesis_config[p] = d.config /\ error[p] \in {"", "OSError"})

\* C7: when an invocation has ended, the output file holds the complete
\* serialized artifact of the invocation or is what it was before it started.
C7_AllOrNothing ==
  \A p \in active :
    Terminal(p) =>
      \/ file = file0
      \/ /\ genesis_config[p].tag = "config"
         /\ file = File(TRUE, dump(genesis_config[p]).chunks)

\* C8: the encoding of a bytes value is two lowercase hex digits per byte
\* with no prefix, and decoding it gives the bytes back.
C8_HexRoundTrip ==
  /\ hpc \in {"decode", "done"} =>
       /\ Len(henc) = 2 * Len(hb)
       /\ \A i \in 1..Len(henc) : henc[i] \in LowerHex
  /\ hpc = "done" => (hdec.err = "" /\ hdec.b = hb)

C8_Witness ==
  /\ hpc = "done"
  /\ hb = <<10, 255>>
  /\ henc = <<"0", "a", "f", "f">>
  /\ hdec.b = <<10, 255>>

\* C9: once two invocations on the same output path have both completed, the
\* file holds exactly the complete artifact of one of them (the one that wrote
\* last), never a mixture of the two or a truncated artifact.  Stated for
\* whichever of the two counts as the last writer.
C9_LastWriterWins ==
  (active = {1, 2} /\ pc[1] = "done" /\ pc[2] = "done") =>
    \E w \in active : file = File(TRUE, dump(genesis_config[w]).chunks)

\* C10: whatever value a well-formed JSON file at the output path parses to,
\* the loader binds that value and an invocation with a resolved time calls
\* the re-stamp collaborator on it.
C10_AnyJsonIsUpdate ==
  \A p \in active :
    LET old == load(file0.content)
    IN (file0.exists /\ old.err = "" /\ TimeResolved(p)) =>
         /\ pc[p] \in {"resolve", "policy"} => existing[p] = old.tree
         /\ PolicyRan(p) => calls[p] = <<UpdateCall(old.tree, ResolvedTime(p))>>

\* C10 as amended: the loader binds the parsed value; with a resolved time
\* the re-stamp collaborator is called on it when it is a non-empty mapping or
\* sequence, true or a non-zero number, and the generation collaborator is
\* called with (profile, time) when it is an empty object, an empty array,
\* null, 0, false or "".
C10_TruthyJsonIsUpdate ==
  \A p \in active :
    LET old == load(file0.content)
    IN (file0.exists /\ old.err = "" /\ TimeResolved(p)) =>
         /\ pc[p] \in {"resolve", "policy"} => existing[p] = old.tree
         /\ PolicyRan(p) =>
              calls[p] = IF old.tree.tag \in {"config", "list1", "true", "one"}
                         THEN <<UpdateCall(old.tree, ResolvedTime(p))>>
                         ELSE <<GenerateCall(p, ResolvedTime(p))>>

C10_Witness ==
  \E p \in active :
    /\ PolicyRan(p)
    /\ TimeResolved(p)
    /\ file0 = File(TRUE, dump(Literal("emptydict")).chunks)
    /\ calls[p] = <<GenerateCall(p, ResolvedTime(p))>>
    /\ pc[p] = "done"

====
